---- MODULE Spec2Model ----
(***************************************************************************)
(* A model of src/app.py: the item table, the five request handlers, the   *)
(* start-up configuration of the database URL and two interleaved edit     *)
(* requests.  Text is a sequence of one-character strings, so that         *)
(* str.strip, the LIKE pattern of the listing and the status coercion are  *)
(* computed the way the code computes them.                                *)
(***************************************************************************)
EXTENDS Integers, Sequences, FiniteSets, TLC

VARIABLES
    items,    \* the items table: primary key -> row
    now,      \* the storage layer's clock, the value of func.now()
    backend,  \* the database the configured URI names
    seq,      \* PostgreSQL: the last value of the primary key's sequence
    gone,     \* history: the ids of the rows deleted so far
    resp,     \* the last response, with the request it answers
    sess,     \* interleaved edits: each handler's position and session
    commits,  \* interleaved edits: the handlers in the order they committed
    env,      \* start-up: DATABASE_URL and FLASK_ENV
    boot      \* start-up: position and the configured database URI

vars == <<items, now, backend, seq, gone, resp, sess, commits, env, boot>>

\* ------------------------------------------------------------------ bounds
\* largest primary key the storage layer hands out in the model
MaxId == 2
\* largest value of the storage layer's clock
MaxTime == 1

\* -------------------------------------------------------------------- text
TODO == <<"t", "o", "d", "o">>
INPROGRESS == <<"i", "n", "-", "p", "r", "o", "g", "r", "e", "s", "s">>
DONE == <<"d", "o", "n", "e">>

\* the set literal of create_item and edit_item
Statuses == {TODO, INPROGRESS, DONE}

\* str.strip() removes leading and trailing whitespace
IsSpace(c) == c = " "

RECURSIVE LStrip(_)
LStrip(s) == IF s # <<>> /\ IsSpace(Head(s)) THEN LStrip(Tail(s)) ELSE s

RECURSIVE RStrip(_)
RStrip(s) ==
    IF s # <<>> /\ IsSpace(s[Len(s)]) THEN RStrip(SubSeq(s, 1, Len(s) - 1)) ELSE s

Strip(s) == RStrip(LStrip(s))

\* case folding of ILIKE, on the letters the inputs use
LowerChar(c) ==
    CASE c = "A" -> "a"
      [] c = "B" -> "b"
      [] c = "D" -> "d"
      [] c = "O" -> "o"
      [] c = "N" -> "n"
      [] c = "E" -> "e"
      [] c = "X" -> "x"
      [] OTHER -> c

Lower(s) == [i \in 1..Len(s) |-> LowerChar(s[i])]

\* SQL LIKE: % matches any run of characters, _ matches exactly one
RECURSIVE LikeMatch(_, _)
LikeMatch(p, s) ==
    IF p = <<>> THEN s = <<>>
    ELSE IF Head(p) = "%"
         THEN \E k \in 0..Len(s) : LikeMatch(Tail(p), SubSeq(s, k + 1, Len(s)))
    ELSE IF s = <<>> THEN FALSE
    ELSE IF Head(p) = "_" THEN LikeMatch(Tail(p), Tail(s))
    ELSE Head(p) = Head(s) /\ LikeMatch(Tail(p), Tail(s))

\* column.ilike(pattern): LIKE on the case-folded operands
ILike(s, p) == LikeMatch(Lower(p), Lower(s))

\* f"%{q}%"
LikePattern(q) == <<"%">> \o q \o <<"%">>

\* request.form.get(key, default) / request.args.get(key, default)
Absent == [present |-> FALSE, value |-> <<>>]
Given(s) == [present |-> TRUE, value |-> s]
FormGet(field, default) == IF field.present THEN field.value ELSE default

\* ------------------------------------------------------------- the table
\* class Item: the columns a handler assigns
Cols == {"title", "description", "status"}

Row(t, d, s, c, u) ==
    [title |-> t, description |-> d, status |-> s, created_at |-> c, updated_at |-> u]

\* the form fields of a POST; a field may be missing from the submission
Form(t, d, s) == [title |-> t, description |-> d, status |-> s]

BOGUS == <<"D", "O", "N", "E">>

\* the submissions the model draws from
Forms ==
    { Form(Given(<<" ", "A", "b", " ">>), Absent, Absent),
      Form(Given(<<"b">>), Given(<<" ", "x">>), Given(<<" ">> \o DONE)),
      Form(Given(<<"A", "b">>), Given(<<"x">>), Given(INPROGRESS)),
      Form(Given(<<"b">>), Given(<<>>), Given(BOGUS)),
      Form(Given(<<" ">>), Given(<<"x">>), Given(DONE)),
      Form(Absent, Absent, Absent) }

\* the ids a request path can name (route converter int)
Ids == 1..MaxId

\* title = request.form.get("title", "").strip()
FormTitle(form) == Strip(FormGet(form.title, <<>>))

\* description = request.form.get("description", "").strip()
FormDescription(form) == Strip(FormGet(form.description, <<>>))

\* status = request.form.get("status", "todo").strip()
FormStatus(form) == Strip(FormGet(form.status, TODO))

\* the submitted status stored as it is
CoerceKeep(status) == status

\* if status not in {"todo", "in-progress", "done"}: status = "todo"
Coerce(status) == IF status \notin Statuses THEN TODO ELSE status

\* the three values a valid submission assigns
Submitted(form) ==
    [title |-> FormTitle(form),
     description |-> FormDescription(form),
     status |-> Coerce(FormStatus(form))]

\* no title check
ValidAlways(form) == TRUE

\* if not title: ... return render_template("item_form.html", ...)
Valid(form) == FormTitle(form) # <<>>

Max(S) == CHOOSE x \in S : \A y \in S : y <= x

\* the largest id in use handed out again
NewIdReuse(b, tbl, sq) == IF DOMAIN tbl = {} THEN 1 ELSE Max(DOMAIN tbl)

\* id = db.Column(db.Integer, primary_key=True): SQLite assigns the largest
\* rowid plus one (no AUTOINCREMENT), PostgreSQL the next value of a sequence
NewId(b, tbl, sq) ==
    IF b = "sqlite"
    THEN IF DOMAIN tbl = {} THEN 1 ELSE Max(DOMAIN tbl) + 1
    ELSE sq + 1

\* db.session.add(item); db.session.commit(): INSERT, both timestamps from
\* server_default=func.now()
Insert(tbl, id, new, t) ==
    [i \in DOMAIN tbl \cup {id} |->
        IF i = id THEN Row(new.title, new.description, new.status, t, t) ELSE tbl[i]]

\* the columns whose assigned value differs from the value the session loaded
Dirty(loaded, new) == {c \in Cols : new[c] # loaded[c]}

\* an UPDATE of all three columns, changed or not
FlushAll(row, loaded, new, t) ==
    [row EXCEPT !.title = new.title, !.description = new.description,
                !.status = new.status, !.updated_at = t]

\* an UPDATE without onupdate
FlushKeepStamp(row, loaded, new, t) ==
    [k \in DOMAIN row |-> IF k \in Dirty(loaded, new) THEN new[k] ELSE row[k]]

\* db.session.commit() after item.title = ..., item.description = ...,
\* item.status = ...: the unit of work emits UPDATE for the changed columns
\* only, and onupdate=func.now() is part of that UPDATE; with no changed
\* column no UPDATE is emitted
Flush(row, loaded, new, t) ==
    IF Dirty(loaded, new) = {} THEN row
    ELSE [k \in DOMAIN row |->
            IF k \in Dirty(loaded, new) THEN new[k]
            ELSE IF k = "updated_at" THEN t
            ELSE row[k]]

\* the row with the largest id deleted, whatever the id asked for
DeleteOther(tbl, id) == [i \in DOMAIN tbl \ {Max(DOMAIN tbl)} |-> tbl[i]]

\* db.session.delete(item); db.session.commit()
Delete(tbl, id) == [i \in DOMAIN tbl \ {id} |-> tbl[i]]

\* -------------------------------------------------------------- listing
\* the two optional filters of index()
Matches(row, q, st) ==
    /\ q # <<>> =>
        \/ ILike(row.title, LikePattern(q))
        \/ ILike(row.description, LikePattern(q))
    /\ st # <<>> => row.status = st

\* query.order_by(...).all(), as the set of the rows' ids
Listing(tbl, q, st) == {i \in DOMAIN tbl : Matches(tbl[i], q, st)}

CountKeys == {"all", "todo", "in-progress", "done"}

StatusOfKey(k) ==
    CASE k = "todo" -> TODO
      [] k = "in-progress" -> INPROGRESS
      [] k = "done" -> DONE
      [] OTHER -> <<>>

\* counts = {"all": Item.query.count(), "todo": ...filter_by(status="todo")...}
Counts(tbl) ==
    [k \in CountKeys |->
        IF k = "all" THEN Cardinality(DOMAIN tbl)
        ELSE Cardinality({i \in DOMAIN tbl : tbl[i].status = StatusOfKey(k)})]

NoCounts == [k \in CountKeys |-> 0]

\* the counts taken over the filtered query instead of the table
IndexViewFiltered(tbl, q, st) ==
    [items |-> Listing(tbl, q, st), q |-> q, status |-> st,
     counts |-> [k \in CountKeys |->
        IF k = "all" THEN Cardinality(Listing(tbl, q, st))
        ELSE Cardinality({i \in Listing(tbl, q, st) : tbl[i].status = StatusOfKey(k)})]]

\* render_template("index.html", items=items, q=q, status=status, counts=counts)
IndexView(tbl, q, st) ==
    [items |-> Listing(tbl, q, st), q |-> q, status |-> st, counts |-> Counts(tbl)]

NoView == [items |-> {}, q |-> <<>>, status |-> <<>>, counts |-> NoCounts]

\* ------------------------------------------------------------ responses
\* what a handler returns: status code, template and its item argument (a set
\* with at most one row; empty for item=None), flashed notice, redirect target
\* together with the request it answers: the handler, the id of the path (for
\* a create, the id the insert was given) and the submitted form
Response(op, id, form, code, template, item, flash, redirect, view) ==
    [op |-> op, id |-> id, form |-> form, code |-> code, template |-> template,
     item |-> item, flash |-> flash, redirect |-> redirect, view |-> view]

NoForm == Form(Absent, Absent, Absent)

NoResponse == Response("none", 0, NoForm, 0, "", {}, "", "", NoView)

\* get_or_404 found no row
NotFound(op, id, form) == Response(op, id, form, 404, "", {}, "", "", NoView)

\* flash(notice, "success"); return redirect(url_for("index"))
Redirect(op, id, form, notice) ==
    Response(op, id, form, 302, "", {}, notice, "index", NoView)

\* return render_template("item_form.html", item=...)
FormPage(op, id, form, item, notice) ==
    Response(op, id, form, 200, "item_form.html", item, notice, "", NoView)

\* ------------------------------------------------------------- sessions
\* the two request handlers of the interleaved-edit specification
Handlers == {1, 2}

IdleSession ==
    [pc |-> "idle", id |-> 0, form |-> NoForm,
     loaded |-> {}, code |-> 0]

\* a URL as its parts: surrounding whitespace or not, the scheme with its
\* "://", the rest up to the query, and the query's key/value pairs in order
Url(pad, scheme, rest, query) ==
    [pad |-> pad, scheme |-> scheme, rest |-> rest, query |-> query]

\* the empty string
EmptyUrl == Url(FALSE, "", "", <<>>)

NoEnv == [url |-> Absent, flask_env |-> Absent]
NoBoot == [pc |-> "none", uri |-> EmptyUrl]

\* ------------------------------------------------------------- handlers
\* the storage layer's clock advances
Tick ==
    /\ now < MaxTime
    /\ now' = now + 1
    /\ UNCHANGED <<items, backend, seq, gone, resp, sess, commits, env, boot>>

\* GET /
Index(q, st) ==
    /\ resp' = Response("index", 0, NoForm, 200, "index.html", {}, "", "",
                        IndexView(items, Strip(q), Strip(st)))
    /\ UNCHANGED <<items, now, backend, seq, gone, sess, commits, env, boot>>

\* GET /items/new
CreateGet ==
    /\ resp' = FormPage("new", 0, NoForm, {}, "")
    /\ UNCHANGED <<items, now, backend, seq, gone, sess, commits, env, boot>>

\* POST /items/new
CreatePost(form) ==
    /\ Valid(form) => NewId(backend, items, seq) <= MaxId
    /\ IF ~Valid(form)
       THEN /\ resp' = FormPage("create", 0, form, {}, "Title is required")
            /\ UNCHANGED <<items, seq>>
       ELSE /\ items' = Insert(items, NewId(backend, items, seq), Submitted(form), now)
            /\ seq' = IF backend = "sqlite" THEN seq ELSE seq + 1
            /\ resp' = Redirect("create", NewId(backend, items, seq), form,
                                "Item created")
    /\ UNCHANGED <<now, backend, gone, sess, commits, env, boot>>

\* GET /items/<id>
ShowItem(id) ==
    /\ resp' = IF id \in DOMAIN items
               THEN Response("show", id, NoForm, 200, "show.html", {items[id]},
                             "", "", NoView)
               ELSE NotFound("show", id, NoForm)
    /\ UNCHANGED <<items, now, backend, seq, gone, sess, commits, env, boot>>

\* GET /items/<id>/edit
EditGet(id) ==
    /\ resp' = IF id \in DOMAIN items
               THEN FormPage("edit_form", id, NoForm, {items[id]}, "")
               ELSE NotFound("edit_form", id, NoForm)
    /\ UNCHANGED <<items, now, backend, seq, gone, sess, commits, env, boot>>

\* an edit POST that inserts the row when the id is unknown
EditPostUpsert(id, form) ==
    /\ IF ~Valid(form)
       THEN /\ resp' = FormPage("edit", id, form, {}, "Title is required")
            /\ UNCHANGED items
       ELSE /\ items' = IF id \in DOMAIN items
                        THEN [items EXCEPT ![id] =
                                Flush(items[id], items[id], Submitted(form), now)]
                        ELSE Insert(items, id, Submitted(form), now)
            /\ resp' = Redirect("edit", id, form, "Item updated")
    /\ UNCHANGED <<now, backend, seq, gone, sess, commits, env, boot>>

\* POST /items/<id>/edit, handled without interleaving
EditPost(id, form) ==
    /\ IF id \notin DOMAIN items
       THEN /\ resp' = NotFound("edit", id, form)
            /\ UNCHANGED items
       ELSE IF ~Valid(form)
       THEN /\ resp' = FormPage("edit", id, form, {items[id]}, "Title is required")
            /\ UNCHANGED items
       ELSE /\ items' = [items EXCEPT
                           ![id] = Flush(items[id], items[id], Submitted(form), now)]
            /\ resp' = Redirect("edit", id, form, "Item updated")
    /\ UNCHANGED <<now, backend, seq, gone, sess, commits, env, boot>>

\* POST /items/<id>/delete; gone records the ids of the deleted rows
DeleteItem(id) ==
    /\ IF id \notin DOMAIN items
       THEN /\ resp' = NotFound("delete", id, NoForm)
            /\ UNCHANGED <<items, gone>>
       ELSE /\ items' = Delete(items, id)
            /\ gone' = gone \cup {id}
            /\ resp' = Redirect("delete", id, NoForm, "Item deleted")
    /\ UNCHANGED <<now, backend, seq, sess, commits, env, boot>>

\* the query strings and status filters the model draws from
Queries == {<<>>, <<" ", "a", "B">>, <<"x">>, <<"_">>}
Filters == {<<>>, DONE \o <<" ">>, BOGUS}

EmptyTable == [i \in {} |-> Row(<<>>, <<>>, TODO, 0, 0)]

\* db.create_all() on an empty database; the backend is the one the
\* configured URI names
Init ==
    /\ items = EmptyTable
    /\ now = 0
    /\ backend \in {"sqlite", "postgresql"}
    /\ seq = 0
    /\ gone = {}
    /\ resp = NoResponse
    /\ sess = [p \in Handlers |-> IdleSession]
    /\ commits = <<>>
    /\ env = NoEnv
    /\ boot = NoBoot

\* one request, with its form and query parameters drawn from the given sets
Request(forms, queries, filters) ==
    \/ \E q \in queries, st \in filters : Index(q, st)
    \/ CreateGet
    \/ \E form \in forms : CreatePost(form)
    \/ \E id \in Ids : ShowItem(id)
    \/ \E id \in Ids : EditGet(id)
    \/ \E id \in Ids, form \in forms : EditPost(id, form)
    \/ \E id \in Ids : DeleteItem(id)

\* requests handled one after the other, within one value of the clock
Next == Request(Forms, Queries, Filters)

Spec == Init /\ [][Next]_vars

\* the submissions, query strings and filters of the specification in which
\* the clock advances between requests
ClockForms ==
    { Form(Given(<<" ", "A", "b", " ">>), Absent, Absent),
      Form(Given(<<"b">>), Given(<<" ", "x">>), Given(<<" ">> \o DONE)),
      Form(Given(<<" ">>), Given(<<"x">>), Given(DONE)) }
ClockQueries == {<<"x">>}
ClockFilters == {<<>>, DONE}

NextClock == Tick \/ Request(ClockForms, ClockQueries, ClockFilters)

SpecClock == Init /\ [][NextClock]_vars

\* ------------------------------------------------------------ properties
\* the three values a request's form was stored as
StoredAs(row, form) ==
    /\ row.title = FormTitle(form)
    /\ row.description = FormDescription(form)
    /\ row.status = Coerce(FormStatus(form))

\* the last request was a create or an edit POST that went through
Wrote == resp.op \in {"create", "edit"} /\ resp.code = 302

StatusValid == \A i \in DOMAIN items : items[i].status \in Statuses

\* C1 as claimed: every persisted status is one of todo, in-progress, done,
\* and a create or edit POST whose submitted status string is not one of the
\* three stores todo.
C1_AsClaimed ==
    /\ StatusValid
    /\ (Wrote /\ FormGet(resp.form.status, TODO) \notin Statuses)
          => items[resp.id].status = TODO

\* C1 amended: every persisted status is one of todo, in-progress, done; a
\* create or edit POST stores the submitted status with surrounding
\* whitespace removed when that is one of the three, and todo otherwise (also
\* when the field is missing).
C1_StatusCoerced ==
    /\ StatusValid
    /\ Wrote =>
          items[resp.id].status =
             IF Strip(FormGet(resp.form.status, TODO)) \in Statuses
             THEN Strip(FormGet(resp.form.status, TODO))
             ELSE TODO

\* an unrecognised status was submitted and todo was stored
C1_Witness ==
    /\ Wrote
    /\ resp.form.status = Given(BOGUS)
    /\ items[resp.id].status = TODO
    /\ \E i \in DOMAIN items : items[i].status = DONE

\* the response to a submission with an empty title
Rejected(r) ==
    /\ r.code = 200
    /\ r.template = "item_form.html"
    /\ r.flash = "Title is required"
    /\ r.redirect = ""

\* C2: a create or edit POST whose trimmed title is empty changes no stored
\* data and re-renders the form with the notice 'Title is required' (200, no
\* redirect); no persisted item has an empty title.
C2_EmptyTitleRejected ==
    /\ [](\A i \in DOMAIN items : items[i].title # <<>>)
    /\ [][\A form \in Forms :
            (Strip(FormGet(form.title, <<>>)) = <<>>) =>
               /\ CreatePost(form) => (items' = items /\ Rejected(resp'))
               /\ \A id \in DOMAIN items :
                     EditPost(id, form) => (items' = items /\ Rejected(resp'))]_vars

\* an edit with a blank title was rejected while two items were stored
C2_Witness ==
    /\ resp.op = "edit"
    /\ Rejected(resp)
    /\ resp.form.title = Given(<<" ">>)
    /\ Cardinality(DOMAIN items) = 2

\* sub occurs in s as a contiguous run of characters
Contains(s, sub) ==
    \E k \in 0..(Len(s) - Len(sub)) : SubSeq(s, k + 1, k + Len(sub)) = sub

ContainsNoCase(s, sub) == Contains(Lower(s), Lower(sub))

\* the items a query and a status filter select, by substring and equality
Selected(tbl, q, st) ==
    {i \in DOMAIN tbl :
        /\ q # <<>> =>
              \/ ContainsNoCase(tbl[i].title, q)
              \/ ContainsNoCase(tbl[i].description, q)
        /\ st # <<>> => tbl[i].status = st}

\* C3: the listing returns exactly the items whose title or description
\* contains the trimmed q as a case-insensitive substring (when q is not
\* empty) and whose status equals the trimmed filter (when it is not empty).
C3_ListingIsSubstringSearch ==
    resp.op = "index" =>
        resp.view.items = Selected(items, resp.view.q, resp.view.status)

\* C3 for a query without the LIKE wildcards % and _
C3_WithoutWildcards ==
    (resp.op = "index" /\ \A k \in 1..Len(resp.view.q) : resp.view.q[k] \notin {"%", "_"})
        => resp.view.items = Selected(items, resp.view.q, resp.view.status)

\* C4: a detail GET, edit GET, edit POST or delete POST for an id that matches
\* no persisted item answers 404 and leaves the table unchanged; an edit POST
\* to such an id creates nothing, whatever its form.
C4_MissingIdNotFound ==
    [][\A id \in Ids :
         (/\ id \notin DOMAIN items
          /\ \/ ShowItem(id)
             \/ EditGet(id)
             \/ \E form \in Forms : EditPost(id, form)
             \/ DeleteItem(id))
         => (resp'.code = 404 /\ resp'.id = id /\ items' = items)]_vars

\* an edit POST with a valid form for an id that is not stored, answered 404
\* while another item is stored
C4_Witness ==
    /\ resp.op = "edit"
    /\ resp.code = 404
    /\ Valid(resp.form)
    /\ resp.id \notin DOMAIN items
    /\ DOMAIN items # {}

KeyOfStatus(st) ==
    CASE st = TODO -> "todo"
      [] st = INPROGRESS -> "in-progress"
      [] st = DONE -> "done"

EditedInPlace(id, form) ==
    /\ DOMAIN items' = DOMAIN items
    /\ \A i \in DOMAIN items \ {id} : items'[i] = items[i]
    /\ items'[id].created_at = items[id].created_at
    /\ StoredAs(items'[id], form)
    /\ resp'.code = 302 /\ resp'.id = id
    /\ (items[id].status = TODO /\ items'[id].status = DONE) =>
          /\ id \in Listing(items', <<>>, DONE)
          /\ Counts(items')["todo"] = Counts(items)["todo"] - 1

\* C6 as claimed: a successful edit POST keeps id and created_at, stores the
\* submitted values, leaves the number of items and every other item
\* unchanged, and its updated_at changes (read with the clock having advanced
\* since the row was last written).
C6_AsClaimed ==
    [][\A id \in DOMAIN items : \A form \in Forms :
         (Valid(form) /\ EditPost(id, form)) =>
            /\ EditedInPlace(id, form)
            /\ now > items[id].updated_at =>
                  items'[id].updated_at # items[id].updated_at]_vars

\* C6 amended: as claimed, except that updated_at becomes the storage clock's
\* current time when the edit changes at least one of title, description and
\* status, and keeps its value when the submitted values are the stored ones.
C6_EditInPlace ==
    [][\A id \in DOMAIN items : \A form \in Forms :
         (resp'.id = id /\ resp'.form = form /\ Valid(form) /\ EditPost(id, form)) =>
            /\ EditedInPlace(id, form)
            /\ items'[id].updated_at =
                  IF \E c \in Cols : items'[id][c] # items[id][c]
                  THEN now
                  ELSE items[id].updated_at]_vars

\* an edit to done went through after the clock advanced, next to an
\* untouched item
C6_Witness ==
    /\ resp.op = "edit"
    /\ resp.code = 302
    /\ items[resp.id].status = DONE
    /\ items[resp.id].updated_at > items[resp.id].created_at
    /\ \E i \in DOMAIN items : i # resp.id

\* what a delete POST on a stored item does at once
DeletedNow(id) ==
    /\ DOMAIN items' = DOMAIN items \ {id}
    /\ \A i \in DOMAIN items' : items'[i] = items[i]
    /\ \A q \in Queries, st \in Filters :
          id \notin Listing(items', Strip(q), Strip(st))
    /\ id \notin DOMAIN items'
    /\ Counts(items')["all"] = Counts(items)["all"] - 1
    /\ resp'.code = 302 /\ resp'.redirect = "index"

\* C7 as claimed: a delete POST on a stored item removes that record and no
\* other, the item is absent from every listing and from the detail view,
\* the total count is lower by exactly 1, and no later create, edit or delete
\* request brings a record with the deleted id back.
C7_AsClaimed ==
    /\ [][\A id \in DOMAIN items : DeleteItem(id) => DeletedNow(id)]_vars
    /\ [](\A id \in gone : id \notin DOMAIN items)

\* C7 amended: as claimed, except for what follows a delete: no later edit
\* or delete request brings a record with the deleted id back; only a create
\* POST adds a record, and it is given the id of a deleted record only on
\* SQLite, never on PostgreSQL.
C7_DeleteRemovesOne ==
    /\ [][\A id \in DOMAIN items : DeleteItem(id) => DeletedNow(id)]_vars
    /\ [][\A id \in Ids :
            (id \notin DOMAIN items /\ id \in DOMAIN items') =>
               /\ \E form \in Forms : CreatePost(form)
               /\ resp'.op = "create" /\ resp'.id = id
               /\ id \in gone => backend = "sqlite"]_vars

\* a delete went through, another item is still stored, and an earlier
\* delete's id is still absent
C7_Witness ==
    /\ resp.op = "delete"
    /\ resp.code = 302
    /\ DOMAIN items # {}
    /\ resp.id \notin DOMAIN items
    /\ gone \ {resp.id} # {}

\* C10: the four counts of the listing are taken over the whole table: the
\* number of items and the number of items with each status, whatever q and
\* status are; the listing request changes no stored data.
C10_CountsUnfiltered ==
    /\ [](resp.op = "index" =>
            /\ resp.view.counts["all"] = Cardinality(DOMAIN items)
            /\ resp.view.counts["todo"] =
                  Cardinality({i \in DOMAIN items : items[i].status = TODO})
            /\ resp.view.counts["in-progress"] =
                  Cardinality({i \in DOMAIN items : items[i].status = INPROGRESS})
            /\ resp.view.counts["done"] =
                  Cardinality({i \in DOMAIN items : items[i].status = DONE}))
    /\ [][resp'.op = "index" => items' = items]_vars

\* a filtered listing that leaves out a stored item while the counts cover
\* the table
C10_Witness ==
    /\ resp.op = "index"
    /\ resp.view.status = DONE
    /\ Cardinality(resp.view.items) < Cardinality(DOMAIN items)
    /\ resp.view.counts["all"] = 2
    /\ resp.view.counts["done"] = 1

\* ------------------------------------------- two interleaved edit POSTs
\* the rows a valid submission can have stored, created at time 0
StoredRows ==
    {Row(Submitted(f).title, Submitted(f).description, Submitted(f).status, 0, 0) :
        f \in {g \in Forms : Valid(g)}}

\* tables of one item, and of two items the first of which is as the first
\* form stores it
ConcTables ==
    {[i \in {1} |-> r] : r \in StoredRows}
      \cup {[i \in {1, 2} |-> IF i = 1
                              THEN Row(<<"A", "b">>, <<>>, TODO, 0, 0) ELSE r] :
               r \in StoredRows}

\* item = Item.query.get_or_404(item_id), in handler p's own session
BeginEdit(p, id, form) ==
    /\ sess[p].pc = "idle"
    /\ sess' = [sess EXCEPT ![p] =
                  IF id \in DOMAIN items
                  THEN [pc |-> "loaded", id |-> id, form |-> form,
                        loaded |-> {items[id]}, code |-> 0]
                  ELSE [pc |-> "done", id |-> id, form |-> form,
                        loaded |-> {}, code |-> 404]]
    /\ UNCHANGED <<items, now, backend, seq, gone, resp, commits, env, boot>>

\* the title check, then item.title = ..., item.description = ...,
\* item.status = ... on the session's copy of the row
AssignEdit(p) ==
    /\ sess[p].pc = "loaded"
    /\ sess' = [sess EXCEPT ![p] =
                  IF Valid(sess[p].form)
                  THEN [@ EXCEPT !.pc = "assigned"]
                  ELSE [@ EXCEPT !.pc = "done", !.code = 200]]
    /\ UNCHANGED <<items, now, backend, seq, gone, resp, commits, env, boot>>

\* db.session.commit(): the UPDATE of the columns this session changed; an
\* UPDATE whose row is gone is an unhandled error (500)
CommitEdit(p) ==
    /\ sess[p].pc = "assigned"
    /\ LET id == sess[p].id
           loaded == CHOOSE r \in sess[p].loaded : TRUE
           new == Submitted(sess[p].form)
       IN  IF id \in DOMAIN items
           THEN /\ items' = [items EXCEPT ![id] = Flush(items[id], loaded, new, now)]
                /\ sess' = [sess EXCEPT ![p].pc = "done", ![p].code = 302]
                /\ commits' = Append(commits, p)
           ELSE /\ sess' = [sess EXCEPT ![p].pc = "done", ![p].code = 500]
                /\ UNCHANGED <<items, commits>>
    /\ UNCHANGED <<now, backend, seq, gone, resp, env, boot>>

InitConc ==
    /\ items \in ConcTables
    /\ now = 1
    /\ backend \in {"sqlite", "postgresql"}
    /\ seq = IF backend = "sqlite" THEN 0 ELSE Cardinality(DOMAIN items)
    /\ gone = {}
    /\ resp = NoResponse
    /\ sess = [p \in Handlers |-> IdleSession]
    /\ commits = <<>>
    /\ env = NoEnv
    /\ boot = NoBoot

NextConc ==
    \/ \E p \in Handlers, id \in Ids, form \in Forms : BeginEdit(p, id, form)
    \/ \E p \in Handlers : AssignEdit(p)
    \/ \E p \in Handlers : CommitEdit(p)

SpecConc == InitConc /\ [][NextConc]_vars

\* both handlers edited the same stored item and both have answered
BothCommitted ==
    /\ Len(commits) = 2
    /\ sess[1].id = sess[2].id

LoadedBy(p) == CHOOSE r \in sess[p].loaded : TRUE

\* no edit POST on a stored item ends in a conflict error
NoConflict ==
    \A p \in Handlers :
        (sess[p].pc = "done" /\ sess[p].loaded # {}) =>
            sess[p].code = IF Valid(sess[p].form) THEN 302 ELSE 200

\* C9 as claimed: two interleaved edit POSTs on the same stored item both
\* complete without a conflict error, and the record's final title,
\* description and status are exactly those submitted by the edit that
\* committed last.
C9_AsClaimed ==
    /\ NoConflict
    /\ BothCommitted =>
          \A c \in Cols :
             items[sess[1].id][c] = Submitted(sess[commits[2]].form)[c]

\* C9 amended: both complete without a conflict error; each of title,
\* description and status ends as the value the last committed edit
\* submitted if that differs from the value its handler loaded, and otherwise
\* as the earlier commit left it (its submitted value if that differed from
\* what it loaded, else the loaded value).
C9_LastChangedColumnWins ==
    /\ NoConflict
    /\ BothCommitted =>
          LET first == commits[1]
              last == commits[2]
              old == LoadedBy(first)
              a == Submitted(sess[first].form)
              b == Submitted(sess[last].form)
          IN  \A c \in Cols :
                 items[sess[1].id][c] =
                    IF b[c] # LoadedBy(last)[c] THEN b[c]
                    ELSE IF a[c] # old[c] THEN a[c]
                    ELSE old[c]

\* both edits are committed, the later one loaded the row before the earlier
\* commit, and a value of the earlier commit is in the final row
C9_Witness ==
    /\ BothCommitted
    /\ sess[1].code = 302 /\ sess[2].code = 302
    /\ LoadedBy(1) = LoadedBy(2)
    /\ \E c \in Cols :
          /\ items[sess[1].id][c] = Submitted(sess[commits[1]].form)[c]
          /\ items[sess[1].id][c] # Submitted(sess[commits[2]].form)[c]

\* ---------------------------------------------------------- configuration
\* "sqlite:///dev.sqlite3"
SqliteDev == Url(FALSE, "sqlite://", "/dev.sqlite3", <<>>)

\* str.strip() of a URL text
StripUrl(u) == [u EXCEPT !.pad = FALSE]

\* a string that is empty: `not raw_url`
IsEmpty(u) == ~u.pad /\ u.scheme = "" /\ u.rest = "" /\ u.query = <<>>

\* k.lower() on the keys the inputs use
LowerKey(k) == IF k = "SSLMODE" THEN "sslmode" ELSE k

\* dict(parse_qsl(query)): one entry per key, in order of first occurrence,
\* holding the key's last value
RECURSIVE QueryDict(_)
QueryDict(q) ==
    IF q = <<>> THEN <<>>
    ELSE LET init == QueryDict(SubSeq(q, 1, Len(q) - 1))
             e == q[Len(q)]
         IN  IF \E i \in 1..Len(init) : init[i].k = e.k
             THEN [i \in 1..Len(init) |-> IF init[i].k = e.k THEN e ELSE init[i]]
             ELSE Append(init, e)

\* the scheme rewriting of _normalize_db_url
Rescheme(scheme) ==
    IF scheme \in {"postgresql://", "postgres://"}
    THEN "postgresql+psycopg://"
    ELSE scheme

\* _normalize_db_url: RuntimeError on an empty string, else the stripped URL
\* with the scheme rewritten and sslmode=require added unless some key is
\* sslmode in any case
NormalizeDbUrl(raw) ==
    IF IsEmpty(raw) THEN [ok |-> FALSE, url |-> EmptyUrl]
    ELSE LET qs == QueryDict(raw.query)
             has == \E i \in 1..Len(qs) : LowerKey(qs[i].k) = "sslmode"
         IN  [ok |-> TRUE,
              url |-> Url(FALSE, Rescheme(raw.scheme), raw.rest,
                          IF has THEN qs
                          ELSE Append(qs, [k |-> "sslmode", v |-> "require"]))]

\* db_url = os.getenv("DATABASE_URL", "").strip()
\* if not db_url and os.getenv("FLASK_ENV") == "development": db_url = sqlite
\* SQLALCHEMY_DATABASE_URI = _normalize_db_url(db_url) if db_url else sqlite
ConfiguredUri(url, flask_env) ==
    LET db_url == StripUrl(FormGet(url, EmptyUrl))
        db_url2 == IF IsEmpty(db_url) /\ flask_env = Given("development")
                   THEN SqliteDev
                   ELSE db_url
    IN  IF ~IsEmpty(db_url2)
        THEN NormalizeDbUrl(db_url2)
        ELSE [ok |-> TRUE, url |-> SqliteDev]

\* module import: the configuration is computed once; an exception ends the
\* process before it serves
Boot ==
    /\ boot.pc = "start"
    /\ LET r == ConfiguredUri(env.url, env.flask_env)
       IN  boot' = IF r.ok THEN [pc |-> "running", uri |-> r.url]
                   ELSE [pc |-> "failed", uri |-> EmptyUrl]
    /\ UNCHANGED <<items, now, backend, seq, gone, resp, sess, commits, env>>

\* the query strings of the DATABASE_URL values the model draws from
UrlQueries ==
    { <<>>,
      <<[k |-> "sslmode", v |-> "disable"]>>,
      <<[k |-> "SSLMODE", v |-> "require"]>>,
      <<[k |-> "a", v |-> "1"]>>,
      <<[k |-> "a", v |-> "1"], [k |-> "sslmode", v |-> "disable"]>>,
      <<[k |-> "a", v |-> "1"], [k |-> "a", v |-> "2"]>> }

\* the values of DATABASE_URL: unset, empty, blank, or a URL
EnvUrls ==
    {Absent, Given(EmptyUrl), Given(Url(TRUE, "", "", <<>>))}
      \cup {Given(Url(pad, scheme, "h/db", q)) :
               pad \in BOOLEAN,
               scheme \in {"postgres://", "postgresql://",
                           "postgresql+psycopg://", "mysql://"},
               q \in UrlQueries}

\* the values of FLASK_ENV
EnvModes == {Absent, Given("development"), Given("production"), Given("Development")}

InitBoot ==
    /\ items = EmptyTable
    /\ now = 0
    /\ backend = "none"
    /\ seq = 0
    /\ gone = {}
    /\ resp = NoResponse
    /\ sess = [p \in Handlers |-> IdleSession]
    /\ commits = <<>>
    /\ env \in [url : EnvUrls, flask_env : EnvModes]
    /\ boot = [pc |-> "start", uri |-> EmptyUrl]

NextBoot == Boot

SpecBoot == InitBoot /\ [][NextBoot]_vars

\* no connection string is supplied: DATABASE_URL is unset, empty or blank
NoConnectionString == IsEmpty(StripUrl(FormGet(env.url, EmptyUrl)))

DevelopmentMode == env.flask_env = Given("development")

\* C8: start-up fails with a configuration error whenever no connection
\* string is supplied and FLASK_ENV is not 'development'; the SQLite file is
\* substituted only in development mode with no connection string.
C8_FailsWithoutUrl ==
    boot.pc # "start" =>
        /\ (NoConnectionString /\ ~DevelopmentMode) => boot.pc = "failed"
        /\ (boot.pc = "running" /\ boot.uri.scheme = "sqlite://")
              => (NoConnectionString /\ DevelopmentMode)

\* what start-up does: it never fails; with no connection string the URI is
\* the SQLite file, with sslmode=require added in development mode only
C8_AsBuilt ==
    boot.pc # "start" =>
        /\ boot.pc = "running"
        /\ NoConnectionString =>
              boot.uri = IF DevelopmentMode
                         THEN [SqliteDev EXCEPT
                                 !.query = <<[k |-> "sslmode", v |-> "require"]>>]
                         ELSE SqliteDev
        /\ ~NoConnectionString =>
              \E i \in 1..Len(boot.uri.query) :
                 LowerKey(boot.uri.query[i].k) = "sslmode"

====
